---- MODULE Spec2Model ----
(***************************************************************************)
(* Machine planner (machine_planner.py): batches of demand lines are        *)
(* packed greedily into (day, machine) capacity over MAX_SHIFT_DAYS + 1     *)
(* days, then the load of the two soy-sauce machines is balanced.           *)
(*                                                                          *)
(* Text values (type, category, recipe) are sequences of one-character      *)
(* strings, so that strip(), lower() and the substring test are computed.   *)
(* "P","P" stands for the type literal of the balancing filter, "s","o"     *)
(* for the lower-case category fragment it looks for; "S" is the upper-case *)
(* form of "s".  Python dicts are insertion-ordered: every dict whose       *)
(* iteration order the code uses is a sequence of entries.                  *)
(***************************************************************************)
EXTENDS Integers, Sequences, FiniteSets, TLC

\* ---------------------------------------------------------------- bounds
MaxCap == 2
MaxPlan == 2
MaxLines == 3
MaxRules == 2
MaxSheetRows == 2

\* ------------------------------------------------------ program constants
MAX_SHIFT_DAYS == 2

Days == 0..MAX_SHIFT_DAYS

soy_machine_ids == <<"soy_pp_1", "soy_pp_2">>

NO_BRAND == "_NO_BRAND_"

\* --------------------------------------------------------- text helpers
Min(a, b) == IF a <= b THEN a ELSE b
Max(a, b) == IF a >= b THEN a ELSE b
Abs(a) == IF a < 0 THEN 0 - a ELSE a

RECURSIVE LStrip(_)
LStrip(s) == IF s # <<>> /\ Head(s) = " " THEN LStrip(Tail(s)) ELSE s

RECURSIVE RStrip(_)
RStrip(s) ==
  IF s # <<>> /\ s[Len(s)] = " " THEN RStrip(SubSeq(s, 1, Len(s) - 1)) ELSE s

\* str.strip()
Strip(s) == RStrip(LStrip(s))

LowerChar(c) == IF c = "S" THEN "s" ELSE IF c = "P" THEN "p" ELSE c

\* str.lower()
Lower(s) == [i \in DOMAIN s |-> LowerChar(s[i])]

\* needle in s
Contains(needle, s) ==
  \E i \in 0..(Len(s) - Len(needle)) : SubSeq(s, i + 1, i + Len(needle)) = needle

TypePP == <<"P", "P">>
SoyFragment == <<"s", "o">>
KeySep == <<"|", "|">>

RECURSIVE SumSeq(_)
SumSeq(s) == IF s = <<>> THEN 0 ELSE Head(s) + SumSeq(Tail(s))

RECURSIVE FilterSeq(_, _)
\* the subsequence of s whose positions are in keep
FilterSeq(s, keep) ==
  IF s = <<>> THEN <<>>
  ELSE LET rest == FilterSeq(SubSeq(s, 1, Len(s) - 1), keep)
       IN IF Len(s) \in keep THEN Append(rest, s[Len(s)]) ELSE rest

\* ----------------------------------------------------------------- Machine
\* Machine.__init__: the filter lists become sets of stripped non-blank items
Machine(machine_id, categories, types, daily_capacity, priority, active) ==
  [id |-> machine_id,
   categories |-> {Strip(categories[i]) : i \in {j \in DOMAIN categories : Strip(categories[j]) # <<>>}},
   types |-> {Strip(types[i]) : i \in {j \in DOMAIN types : Strip(types[j]) # <<>>}},
   daily_capacity |-> daily_capacity,
   priority |-> priority,
   active |-> active]

\* Machine.can_produce with the blank-argument guards left out
can_produce_strict(mach, product_type, category) ==
  LET pt == Strip(product_type)
      cat == Strip(category)
  IN IF mach.categories # {} /\ cat \notin mach.categories THEN FALSE
     ELSE IF mach.types # {} /\ pt \notin mach.types THEN FALSE
     ELSE TRUE

\* Machine.can_produce
can_produce(mach, product_type, category) ==
  LET pt == Strip(product_type)
      cat == Strip(category)
  IN IF mach.categories # {} /\ cat # <<>> /\ cat \notin mach.categories THEN FALSE
     ELSE IF mach.types # {} /\ pt # <<>> /\ pt \notin mach.types THEN FALSE
     ELSE TRUE

\* machines is a dict id -> Machine, kept as the sequence of its values
MachineIds(ms) == {ms[i].id : i \in DOMAIN ms}

HasMachine(ms, mid) == mid \in MachineIds(ms)

\* machines[mid] / machines.get(mid)
GetMachine(ms, mid) == ms[CHOOSE i \in DOMAIN ms : ms[i].id = mid]

\* list.sort(key=...) / sorted(..., key=...): stable insertion sort, ascending;
\* keyed is a sequence of [k |-> sort key, v |-> item]
RECURSIVE InsertByKey(_, _)
InsertByKey(sorted, x) ==
  IF sorted = <<>> THEN <<x>>
  ELSE IF sorted[Len(sorted)].k <= x.k THEN Append(sorted, x)
  ELSE Append(InsertByKey(SubSeq(sorted, 1, Len(sorted) - 1), x), sorted[Len(sorted)])

RECURSIVE SortKeyed(_)
SortKeyed(keyed) ==
  IF keyed = <<>> THEN <<>>
  ELSE InsertByKey(SortKeyed(SubSeq(keyed, 1, Len(keyed) - 1)), keyed[Len(keyed)])

Values(keyed) == [i \in DOMAIN keyed |-> keyed[i].v]

InSeq(x, s) == \E i \in DOMAIN s : s[i] = x

\* append every item of xs to ids, repeated or not
AppendAll(ids, xs) == ids \o xs

RECURSIVE AppendNew(_, _)
\* append each item of xs to ids unless it is there already
AppendNew(ids, xs) ==
  IF xs = <<>> THEN ids
  ELSE AppendNew(IF InSeq(Head(xs), ids) THEN ids ELSE Append(ids, Head(xs)), Tail(xs))

\* lines 251-260: the active rules whose stripped Type, Category and Recipe
\* equal the stripped product class, in sheet order
matching_rules(routing, product_type, category, recipe) ==
  LET pt == Strip(product_type)
      cat == Strip(category)
      rec == Strip(recipe)
      mask == {i \in DOMAIN routing :
                 /\ Strip(routing[i].Type) = pt
                 /\ Strip(routing[i].Category) = cat
                 /\ Strip(routing[i].Recipe) = rec
                 /\ routing[i].Active}
  IN FilterSeq(routing, mask)

\* line 262: subset.sort_values(by="Priority", ascending=True) with the default
\* sort kind, which does not promise to keep the order of rows of equal
\* Priority: every ascending arrangement of the rows is a possible outcome
sort_values(rows) ==
  IF rows = <<>> THEN {<<>>}
  ELSE {[i \in DOMAIN rows |-> rows[f[i]]] :
          f \in {g \in [DOMAIN rows -> DOMAIN rows] :
                   /\ \A i, j \in DOMAIN rows : i # j => g[i] # g[j]
                   /\ \A i, j \in DOMAIN rows : i < j => rows[g[i]].Priority <= rows[g[j]].Priority}}

\* lines 264-268: the targets of the sorted rules, blanks skipped, first
\* occurrence kept
routing_targets(subset) ==
  LET preferred == [i \in DOMAIN subset |-> subset[i].Preferred_Machine_ID]
  IN AppendNew(<<>>, FilterSeq(preferred, {i \in DOMAIN preferred : preferred[i] # ""}))

\* lines 270-274 appended to the routing targets: every active machine that
\* can produce (pt, cat), in registry order, unless it is there already
candidate_ids(ms, subset, pt, cat) ==
  LET capable == FilterSeq(ms, {i \in DOMAIN ms : ms[i].active /\ can_produce(ms[i], pt, cat)})
  IN AppendNew(routing_targets(subset), [i \in DOMAIN capable |-> capable[i].id])

\* the result left in the order of candidates_ids
keep_order(result) == result

\* result.sort(key=lambda m: m.priority), line 284: stable
sort_by_priority(result) ==
  Values(SortKeyed([i \in DOMAIN result |-> [k |-> result[i].priority, v |-> result[i]]]))

\* lines 264-285 without the re-check of line 281: every known machine a
\* routing rule names is kept
candidates_from_rules_unchecked(ms, subset, pt, cat) ==
  LET candidates_ids == candidate_ids(ms, subset, pt, cat)
      kept == FilterSeq(candidates_ids, {i \in DOMAIN candidates_ids : HasMachine(ms, candidates_ids[i])})
  IN sort_by_priority([i \in DOMAIN kept |-> GetMachine(ms, kept[i])])

\* lines 264-285: the candidate list built from the sorted rules
candidates_from_rules(ms, subset, pt, cat) ==
  LET candidates_ids == candidate_ids(ms, subset, pt, cat)
      known == {i \in DOMAIN candidates_ids :
                  /\ HasMachine(ms, candidates_ids[i])
                  /\ GetMachine(ms, candidates_ids[i]).active
                  /\ can_produce(GetMachine(ms, candidates_ids[i]), pt, cat)}
      kept == FilterSeq(candidates_ids, known)
  IN sort_by_priority([i \in DOMAIN kept |-> GetMachine(ms, kept[i])])

\* get_candidate_machines_for_product without the re-check of line 281
get_candidate_machines_unchecked(ms, routing, product_type, category, recipe) ==
  {candidates_from_rules_unchecked(ms, subset, Strip(product_type), Strip(category)) :
     subset \in sort_values(matching_rules(routing, product_type, category, recipe))}

\* get_candidate_machines_for_product: the lists the call can return, one for
\* each outcome of sort_values
get_candidate_machines_for_product(ms, routing, product_type, category, recipe) ==
  {candidates_from_rules(ms, subset, Strip(product_type), Strip(category)) :
     subset \in sort_values(matching_rules(routing, product_type, category, recipe))}

\* ------------------------------------------------- load_machine_settings
\* A sheet cell holds a number, a boolean or text: t tells which of the
\* fields n, b, x is the value; numeric text reaches the code as a number.
IntCell(n) == [t |-> "int", n |-> n, b |-> FALSE, x |-> <<>>]
BoolCell(b) == [t |-> "bool", n |-> 0, b |-> b, x |-> <<>>]
StrCell(x) == [t |-> "str", n |-> 0, b |-> FALSE, x |-> x]

UpperChar(c) ==
  IF c = "y" THEN "Y" ELSE IF c = "e" THEN "E" ELSE IF c = "s" THEN "S"
  ELSE IF c = "n" THEN "N" ELSE IF c = "o" THEN "O" ELSE c

\* str.upper()
Upper(s) == [i \in DOMAIN s |-> UpperChar(s[i])]

\* parse_bool; the Cyrillic spelling of the accepted words is not among the
\* cell values of the model
parse_bool(cell) ==
  IF cell.t = "bool" THEN cell.b
  ELSE IF cell.t = "int" THEN cell.n = 1
  ELSE Upper(Strip(cell.x)) \in {<<"T", "R", "U", "E">>, <<"1">>, <<"Y", "E", "S">>, <<"Y">>, <<"T">>}

\* try: int(cell or default) except: fallback -- a falsy cell (0, "") gives
\* the default, text that is not a number raises and gives the fallback
int_or(cell, default, fallback) ==
  IF cell.t = "int" THEN (IF cell.n = 0 THEN default ELSE cell.n)
  ELSE IF cell.x = <<>> THEN default
  ELSE fallback

\* machines[machine_id] = mach: a known id keeps its place in the dict
SetMachine(ms, mach) ==
  IF HasMachine(ms, mach.id)
  THEN [i \in DOMAIN ms |-> IF ms[i].id = mach.id THEN mach ELSE ms[i]]
  ELSE Append(ms, mach)

\* the loop body of lines 173-203: "if not daily_capacity: continue" skips
\* the row only when the capacity is 0
load_machine_row(ms, row) ==
  LET daily_capacity == int_or(row.Daily_Capacity_cases, 0, 0)
      priority == int_or(row.Priority, 100, 100)
      active == parse_bool(row.Active)
  IN IF row.Machine_ID = "" THEN ms
     ELSE IF daily_capacity = 0 THEN ms
     ELSE SetMachine(ms, Machine(row.Machine_ID, row.Category_Allowed, row.Type_Allowed,
                                 daily_capacity, priority, active))

RECURSIVE load_machine_rows(_, _)
load_machine_rows(ms, rows) ==
  IF rows = <<>> THEN ms
  ELSE load_machine_rows(load_machine_row(ms, Head(rows)), Tail(rows))

\* load_machine_settings, the Machines sheet: the registry it returns
load_machine_settings(rows) == load_machine_rows(<<>>, rows)

\* ------------------------------------------------------------ build_batches
\* key = f"{pt}||{cat}||{rec}"
BatchKey(pt, cat, rec) == pt \o KeySep \o cat \o KeySep \o rec

HasBatch(bs, key) == \E i \in DOMAIN bs : bs[i].key = key

\* batches[key] / batches.get(key)
BatchPos(bs, key) == CHOOSE i \in DOMAIN bs : bs[i].key = key

GetBatch(bs, key) == bs[BatchPos(bs, key)]

\* one iteration of the loop of build_batches (the recipe is not blank)
build_batches_row(bs, row) ==
  LET pt == Strip(row.Type)
      cat == Strip(row.Category)
      rec == Strip(row.Recipe)
      key == BatchKey(pt, cat, rec)
      bs1 == IF HasBatch(bs, key) THEN bs
             ELSE Append(bs, [key |-> key, Type |-> pt, Category |-> cat, Recipe |-> rec,
                              priority |-> 0, lines |-> <<>>])
      p == BatchPos(bs1, key)
      line == [idx |-> row.idx, Brand |-> row.Brand, PLAN |-> row.PLAN, remaining |-> row.PLAN]
  IN [bs1 EXCEPT ![p].priority = IF row.priority > @ THEN row.priority ELSE @,
                 ![p].lines = Append(@, line)]

RECURSIVE build_batches_loop_skip(_, _)
\* the loop of build_batches passing over a row with a blank recipe
build_batches_loop_skip(bs, rows) ==
  IF rows = <<>> THEN [ok |-> TRUE, batches |-> bs, brand |-> ""]
  ELSE IF Strip(Head(rows).Recipe) = <<>>
       THEN build_batches_loop_skip(bs, Tail(rows))
       ELSE build_batches_loop_skip(build_batches_row(bs, Head(rows)), Tail(rows))

RECURSIVE build_batches_loop(_, _)
build_batches_loop(bs, rows) ==
  IF rows = <<>> THEN [ok |-> TRUE, batches |-> bs, brand |-> ""]
  ELSE IF Strip(Head(rows).Recipe) = <<>>
       THEN [ok |-> FALSE, batches |-> <<>>, brand |-> Head(rows).Brand]
       ELSE build_batches_loop(build_batches_row(bs, Head(rows)), Tail(rows))

\* build_batches: ok = FALSE stands for the ValueError naming the brand
build_batches(plan) == build_batches_loop(<<>>, plan)

\* -------------------------------------------------------- allocate_to_lines
\* d[k] = qty: the entry is overwritten, not accumulated
DictPut(d, k, qty) ==
  IF \E i \in DOMAIN d : d[i].k = k
  THEN [i \in DOMAIN d |-> IF d[i].k = k THEN [d[i] EXCEPT !.qty = qty] ELSE d[i]]
  ELSE Append(d, [k |-> k, qty |-> qty])

\* d[k] = d.get(k, 0) + qty on an insertion-ordered dict of [k, qty] entries
DictAdd(d, k, qty) ==
  IF \E i \in DOMAIN d : d[i].k = k
  THEN [i \in DOMAIN d |-> IF d[i].k = k THEN [d[i] EXCEPT !.qty = @ + qty] ELSE d[i]]
  ELSE Append(d, [k |-> k, qty |-> qty])

\* line_assignments[idx][day] = take, whatever the slot held
AssignPut(la, idx, day, take) ==
  LET slots == IF idx \in DOMAIN la THEN la[idx] ELSE <<>>
      slots1 == [d \in (DOMAIN slots) \cup {day} |-> IF d = day THEN take ELSE slots[d]]
  IN [i \in (DOMAIN la) \cup {idx} |-> IF i = idx THEN slots1 ELSE la[i]]

\* line_assignments[idx][day] = line_assignments[idx].get(day, 0) + take
AssignAdd(la, idx, day, take) ==
  LET slots == IF idx \in DOMAIN la THEN la[idx] ELSE <<>>
      old == IF day \in DOMAIN slots THEN slots[day] ELSE 0
      slots1 == [d \in (DOMAIN slots) \cup {day} |-> IF d = day THEN old + take ELSE slots[d]]
  IN [i \in (DOMAIN la) \cup {idx} |-> IF i = idx THEN slots1 ELSE la[i]]

\* the brand label used as the key, blank included
BrandRaw(brand) == brand

\* str(line.get("Brand") or ""), blank replaced by _NO_BRAND_
BrandKey(brand) == IF brand = "" THEN NO_BRAND ELSE brand

RECURSIVE allocate_to_lines_loop(_, _, _)
\* st = [lines, need, brand_alloc, la]; i is the position of the line visited
allocate_to_lines_loop(st, i, day) ==
  IF i > Len(st.lines) \/ st.need <= 0 THEN st
  ELSE LET rem == st.lines[i].remaining
           take == Min(rem, st.need)
       IN IF rem <= 0 \/ take <= 0 THEN allocate_to_lines_loop(st, i + 1, day)
          ELSE allocate_to_lines_loop(
                 [lines |-> [st.lines EXCEPT ![i].remaining = @ - take],
                  need |-> st.need - take,
                  brand_alloc |-> DictAdd(st.brand_alloc, BrandKey(st.lines[i].Brand), take),
                  la |-> AssignAdd(st.la, st.lines[i].idx, day, take)],
                 i + 1, day)

RECURSIVE allocate_to_lines_down(_, _, _)
\* the loop over the lines run from the last line to the first
allocate_to_lines_down(st, i, day) ==
  IF i < 1 \/ st.need <= 0 THEN st
  ELSE LET rem == st.lines[i].remaining
           take == Min(rem, st.need)
       IN IF rem <= 0 \/ take <= 0 THEN allocate_to_lines_down(st, i - 1, day)
          ELSE allocate_to_lines_down(
                 [lines |-> [st.lines EXCEPT ![i].remaining = @ - take],
                  need |-> st.need - take,
                  brand_alloc |-> DictAdd(st.brand_alloc, BrandKey(st.lines[i].Brand), take),
                  la |-> AssignAdd(st.la, st.lines[i].idx, day, take)],
                 i - 1, day)

\* allocate_to_lines filling the last line first
allocate_to_lines_last_first(batch, qty, day, la) ==
  allocate_to_lines_down([lines |-> batch.lines, need |-> qty, brand_alloc |-> <<>>, la |-> la],
                         Len(batch.lines), day)

\* allocate_to_lines: returns the updated lines and line_assignments, the
\* quantity not allocated (need) and brand_alloc
allocate_to_lines(batch, qty, day, la) ==
  allocate_to_lines_loop([lines |-> batch.lines, need |-> qty, brand_alloc |-> <<>>, la |-> la], 1, day)

\* --------------------------------------------------------- machine_schedule
\* machine_schedule: dict (day, machine id) -> dict (batch key, brand) -> qty,
\* a sequence of [day, mid, ledger], ledger a sequence of [k, qty]
HasSched(sched, d, mid) == \E i \in DOMAIN sched : sched[i].day = d /\ sched[i].mid = mid

SchedPos(sched, d, mid) == CHOOSE i \in DOMAIN sched : sched[i].day = d /\ sched[i].mid = mid

Ledger(sched, d, mid) == IF HasSched(sched, d, mid) THEN sched[SchedPos(sched, d, mid)].ledger ELSE <<>>

LedgerTotal(ledger) == SumSeq([i \in DOMAIN ledger |-> ledger[i].qty])

\* quantity of (batch key, brand) in a ledger, 0 when absent
LedgerQty(ledger, k) ==
  IF \E i \in DOMAIN ledger : ledger[i].k = k
  THEN ledger[CHOOSE i \in DOMAIN ledger : ledger[i].k = k].qty ELSE 0

\* only the first brand of brand_alloc recorded
RecordFirstBrand(ledger, batch_key, brand_alloc) ==
  IF brand_alloc = <<>> THEN ledger
  ELSE DictAdd(ledger, <<batch_key, Head(brand_alloc).k>>, Head(brand_alloc).qty)

RECURSIVE RecordBrands(_, _, _)
\* lines 631-635: for brand, bqty in brand_alloc.items(): ledger[(batch_key, brand)] += bqty
RecordBrands(ledger, batch_key, brand_alloc) ==
  IF brand_alloc = <<>> THEN ledger
  ELSE RecordBrands(
         IF Head(brand_alloc).qty <= 0 THEN ledger
         ELSE DictAdd(ledger, <<batch_key, Head(brand_alloc).k>>, Head(brand_alloc).qty),
         batch_key, Tail(brand_alloc))

\* machine_schedule after recording brand_alloc under (d, mid)
Record(sched, d, mid, batch_key, brand_alloc) ==
  LET s1 == IF HasSched(sched, d, mid) THEN sched
            ELSE Append(sched, [day |-> d, mid |-> mid, ledger |-> <<>>])
      p == SchedPos(s1, d, mid)
  IN [s1 EXCEPT ![p].ledger = RecordBrands(@, batch_key, brand_alloc)]

\* ------------------------------------ balance_soy_pp_between_two_machines
\* lines 686-693 / 755-761: the batch exists, its type is the PP literal and
\* its lower-cased category contains the soy fragment
MatchesFilter(bs, batch_key) ==
  /\ HasBatch(bs, batch_key)
  /\ GetBatch(bs, batch_key).Type = TypePP
  /\ Contains(SoyFragment, Lower(GetBatch(bs, batch_key).Category))

\* lines 680-698: the load of one machine on one day, filter-matching entries only
FilterLoad(sched, bs, d, mid) ==
  LET ledger == Ledger(sched, d, mid)
  IN SumSeq([i \in DOMAIN ledger |->
               IF ledger[i].qty > 0 /\ MatchesFilter(bs, ledger[i].k[1]) THEN ledger[i].qty ELSE 0])

\* the donor entry left in place
RemoveKeep(ledger, k) == ledger

\* del donor_batches[(batch_key, brand)]
RemoveKey(ledger, k) == FilterSeq(ledger, {i \in DOMAIN ledger : ledger[i].k # k})

RECURSIVE move_loop_overdraw(_, _, _)
\* the move loop without the test "qty > remaining_move"
move_loop_overdraw(st, items, bs) ==
  IF items = <<>> \/ st.remaining_move <= 0 THEN st
  ELSE LET k == Head(items).k
           qty == Head(items).qty
       IN IF qty <= 0 \/ ~MatchesFilter(bs, k[1])
          THEN move_loop_overdraw(st, Tail(items), bs)
          ELSE move_loop_overdraw([donor |-> RemoveKey(st.donor, k),
                                   receiver |-> DictAdd(st.receiver, k, qty),
                                   remaining_move |-> st.remaining_move - qty],
                                  Tail(items), bs)

RECURSIVE move_loop(_, _, _)
\* lines 749-779 over the snapshot list(donor_batches.items());
\* st = [donor, receiver, remaining_move]
move_loop(st, items, bs) ==
  IF items = <<>> \/ st.remaining_move <= 0 THEN st
  ELSE LET k == Head(items).k
           qty == Head(items).qty
       IN IF qty <= 0 \/ ~MatchesFilter(bs, k[1]) \/ qty > st.remaining_move
          THEN move_loop(st, Tail(items), bs)
          ELSE move_loop([donor |-> RemoveKey(st.donor, k),
                          receiver |-> DictAdd(st.receiver, k, qty),
                          remaining_move |-> st.remaining_move - qty],
                         Tail(items), bs)

\* the budget taken as the whole load difference, not half of it
balance_plan_full(sched, ms, bs, d) ==
  LET m1_id == soy_machine_ids[1]
      m2_id == soy_machine_ids[2]
      load1 == FilterLoad(sched, bs, d, m1_id)
      load2 == FilterLoad(sched, bs, d, m2_id)
      cap1 == GetMachine(ms, m1_id).daily_capacity
      cap2 == GetMachine(ms, m2_id).daily_capacity
      free1 == cap1 - load1
      free2 == cap2 - load2
      donor_id == IF load1 > load2 THEN m1_id ELSE m2_id
      receiver_id == IF load1 > load2 THEN m2_id ELSE m1_id
      donor_load == IF load1 > load2 THEN load1 ELSE load2
      receiver_load == IF load1 > load2 THEN load2 ELSE load1
      receiver_cap == IF load1 > load2 THEN cap2 ELSE cap1
      free_receiver == receiver_cap - receiver_load
      desired_move == Min(free_receiver, Max(0, donor_load - receiver_load))
  IN [go |-> /\ ~(load1 = 0 /\ load2 = 0)
             /\ ~((free1 <= 0 /\ free2 <= 0) \/ Abs(load1 - load2) <= 1)
             /\ free_receiver > 0
             /\ desired_move > 0
             /\ HasSched(sched, d, donor_id),
      donor_id |-> donor_id, receiver_id |-> receiver_id, desired_move |-> desired_move]

\* lines 703-730: [go, donor_id, receiver_id, desired_move] for one day
balance_plan(sched, ms, bs, d) ==
  LET m1_id == soy_machine_ids[1]
      m2_id == soy_machine_ids[2]
      load1 == FilterLoad(sched, bs, d, m1_id)
      load2 == FilterLoad(sched, bs, d, m2_id)
      cap1 == GetMachine(ms, m1_id).daily_capacity
      cap2 == GetMachine(ms, m2_id).daily_capacity
      free1 == cap1 - load1
      free2 == cap2 - load2
      donor_id == IF load1 > load2 THEN m1_id ELSE m2_id
      receiver_id == IF load1 > load2 THEN m2_id ELSE m1_id
      donor_load == IF load1 > load2 THEN load1 ELSE load2
      receiver_load == IF load1 > load2 THEN load2 ELSE load1
      receiver_cap == IF load1 > load2 THEN cap2 ELSE cap1
      free_receiver == receiver_cap - receiver_load
      desired_move == Min(free_receiver, Max(0, (donor_load - receiver_load) \div 2))
  IN [go |-> /\ ~(load1 = 0 /\ load2 = 0)
             /\ ~((free1 <= 0 /\ free2 <= 0) \/ Abs(load1 - load2) <= 1)
             /\ free_receiver > 0
             /\ desired_move > 0
             /\ HasSched(sched, d, donor_id),
      donor_id |-> donor_id, receiver_id |-> receiver_id, desired_move |-> desired_move]

\* the body of the day loop with the move budget counting every donor entry
balance_day_split(sched, ms, bs, d) ==
  LET plan == balance_plan(sched, ms, bs, d)
      s1 == IF HasSched(sched, d, plan.receiver_id) THEN sched
            ELSE Append(sched, [day |-> d, mid |-> plan.receiver_id, ledger |-> <<>>])
      dp == SchedPos(s1, d, plan.donor_id)
      rp == SchedPos(s1, d, plan.receiver_id)
      k == IF s1[dp].ledger = <<>> THEN <<>> ELSE s1[dp].ledger[1].k
      q == IF s1[dp].ledger = <<>> THEN 0 ELSE Min(s1[dp].ledger[1].qty, plan.desired_move)
  IN IF ~plan.go \/ q <= 0 \/ ~MatchesFilter(bs, k[1]) THEN sched
     ELSE [s1 EXCEPT ![dp].ledger = [@ EXCEPT ![1].qty = @ - q],
                     ![rp].ledger = DictAdd(@, k, q)]

\* lines 676-779: the body of the day loop, machine_schedule after day d
balance_day(sched, ms, bs, d) ==
  LET plan == balance_plan(sched, ms, bs, d)
      s1 == IF HasSched(sched, d, plan.receiver_id) THEN sched
            ELSE Append(sched, [day |-> d, mid |-> plan.receiver_id, ledger |-> <<>>])
      dp == SchedPos(s1, d, plan.donor_id)
      rp == SchedPos(s1, d, plan.receiver_id)
      moved == move_loop([donor |-> s1[dp].ledger, receiver |-> s1[rp].ledger,
                          remaining_move |-> plan.desired_move],
                         s1[dp].ledger, bs)
  IN IF ~plan.go THEN sched
     ELSE [s1 EXCEPT ![dp].ledger = moved.donor, ![rp].ledger = moved.receiver]

\* lines 660-672: the pass runs only when both twins are in the registry
\* and their priorities are equal
balance_guard_none(ms) ==
  /\ HasMachine(ms, soy_machine_ids[1])
  /\ HasMachine(ms, soy_machine_ids[2])

balance_guard(ms) ==
  /\ HasMachine(ms, soy_machine_ids[1])
  /\ HasMachine(ms, soy_machine_ids[2])
  /\ GetMachine(ms, soy_machine_ids[1]).priority = GetMachine(ms, soy_machine_ids[2]).priority

\* ------------------------------------------- plan filter and line columns
\* enrich_plan_with_brands, lines 442-443: PLAN is made an integer (a cell
\* that is not a number counts 0) and the rows with PLAN > 0 are kept; a kept
\* row keeps the index label it had before the filter
plan_filter(sheet) ==
  LET kept == FilterSeq([i \in DOMAIN sheet |-> i],
                        {i \in DOMAIN sheet : int_or(sheet[i].PLAN, 0, 0) > 0})
  IN [p \in DOMAIN kept |->
        [idx |-> kept[p] - 1, Brand |-> sheet[kept[p]].Brand, Type |-> sheet[kept[p]].Type,
         Category |-> sheet[kept[p]].Category, Recipe |-> sheet[kept[p]].Recipe,
         PLAN |-> int_or(sheet[kept[p]].PLAN, 0, 0), priority |-> sheet[kept[p]].priority]]

\* line_assignments.get(idx, {}).get(day, 0)
AssignedOn(la, idx, d) ==
  IF idx \in DOMAIN la /\ d \in DOMAIN la[idx] THEN la[idx][d] ELSE 0

\* build_line_columns: for idx in range(len(plan_df)) the row at position
\* idx gets line_assignments.get(idx, {}) of days 0, 1, 2
build_line_columns(plan, la) ==
  [p \in DOMAIN plan |-> [d \in 0..2 |-> AssignedOn(la, p - 1, d)]]

\* ------------------------------------------------------- distribute_batches
\* line 611 taking the whole remainder whatever is free
take_all(free, rem) == rem

\* line 611: take = min(free, remaining)
take_qty(free, rem) == Min(free, rem)

\* lines 584-588 with the batches left in ascending priority
batch_order_ascending(bs) ==
  Values(SortKeyed([i \in DOMAIN bs |-> [k |-> bs[i].priority, v |-> i]]))

\* lines 584-588: sorted(batches.items(), key=priority, reverse=True), as the
\* positions of the batches; the sort is stable, so equal priorities keep
\* insertion order
batch_order(bs) ==
  Values(SortKeyed([i \in DOMAIN bs |-> [k |-> 0 - bs[i].priority, v |-> i]]))

\* lines 567-570
initial_batch_remaining(bs) ==
  [key \in {bs[i].key : i \in DOMAIN bs} |->
     SumSeq([j \in DOMAIN GetBatch(bs, key).lines |-> GetBatch(bs, key).lines[j].remaining])]

\* lines 573-578 with capacity granted for day 0 only
initial_machine_free_today(ms) ==
  [key \in {<<d, ms[i].id>> : d \in Days, i \in {j \in DOMAIN ms : ms[j].active}} |->
     IF key[1] = 0 THEN GetMachine(ms, key[2]).daily_capacity ELSE 0]

\* lines 573-578: only active machines get a free-capacity entry
initial_machine_free(ms) ==
  [key \in {<<d, ms[i].id>> : d \in Days, i \in {j \in DOMAIN ms : ms[j].active}} |->
     GetMachine(ms, key[2]).daily_capacity]

\* machine_free.get((day, mid), 0)
FreeOf(mf, d, mid) == IF <<d, mid>> \in DOMAIN mf THEN mf[<<d, mid>>] ELSE 0

\* ---------------------------------------------------------------- inputs
SoyType == <<"P", "P">>
SoyCategory == <<"S", "o", "y">>
OtherType == <<"k">>
BlankCategory == <<" ">>
GingerCategory == <<"g">>
TheRecipe == <<"r">>

\* the product class, brand and priority of a plan row
LineKinds ==
  {[Type |-> SoyType, Category |-> SoyCategory, Recipe |-> TheRecipe, Brand |-> "a", priority |-> 10],
   [Type |-> SoyType, Category |-> SoyCategory, Recipe |-> TheRecipe, Brand |-> "b", priority |-> 0],
   [Type |-> OtherType, Category |-> BlankCategory, Recipe |-> TheRecipe, Brand |-> "", priority |-> 0]}

Quantities == {1, MaxPlan}

Capacities == {1, MaxCap}

PlanRow(i, kind, qty) ==
  [idx |-> i - 1, Brand |-> kind.Brand, Type |-> kind.Type, Category |-> kind.Category,
   Recipe |-> kind.Recipe, PLAN |-> qty, priority |-> kind.priority]

\* the plan after enrich_plan_with_brands: PLAN > 0 on every row
\* a row of the other product class always asks for MaxPlan
RowChoices ==
  {c \in [kind : LineKinds, qty : Quantities] : c.kind.Type = OtherType => c.qty = MaxPlan}

Plans ==
  UNION {{[i \in 1..n |-> PlanRow(i, rows[i].kind, rows[i].qty)] :
            rows \in [1..n -> RowChoices]} : n \in 1..MaxLines}

\* rows of the Machines sheet as load_machine_settings keeps them
Twin1Rows ==
  {Machine("soy_pp_1", <<>>, types, cap, 1, TRUE) :
     types \in {<<>>, << <<" ", "P", "P">> >>}, cap \in Capacities}

Twin2Rows ==
  {Machine("soy_pp_2", <<>>, <<>>, cap, prio, TRUE) : cap \in Capacities, prio \in {1, 2}}
  \cup {Machine("soy_pp_2", << GingerCategory, <<" ">> >>, <<>>, MaxCap, prio, TRUE) : prio \in {1, 2}}
  \cup {Machine("soy_pp_2", <<>>, <<>>, MaxCap, prio, FALSE) : prio \in {1, 2}}

OtherRows == {Machine("m3", <<>>, <<>>, cap, 1, TRUE) : cap \in {-1, 1}}

Registries ==
  {<<m1, m2>> : m1 \in Twin1Rows, m2 \in Twin2Rows} \cup {<<m1, m3>> : m1 \in Twin1Rows, m3 \in OtherRows}

Routings ==
  {<<>>,
   <<[Type |-> SoyType, Category |-> SoyCategory, Recipe |-> <<"r", " ">>,
      Preferred_Machine_ID |-> "soy_pp_2", Priority |-> 1, Active |-> TRUE]>>}

\* ------------------------------------------------------------------ state
VARIABLES
  machines,          \* the registry, in sheet order
  routing_df,        \* the routing rules, in sheet order
  plan_df,           \* the plan rows
  batches,           \* build_batches' result; the lines carry remaining
  batch_items,       \* positions of the batches in processing order
  batch_remaining,
  machine_free,
  line_assignments,
  machine_schedule,
  pc,                \* the step main() is at
  day_idx, bpos, cpos, \* loop positions: day, batch in batch_items, candidate
  candidates, remaining, \* locals of the batch loop body
  schedule_in,       \* machine_schedule as the balancer received it
  cp_args, cp_result, \* a function called on its own: arguments and result
  machine_sheet,     \* the rows of the Machines sheet as read
  plan_sheet,        \* the plan rows before the PLAN > 0 filter
  line_columns,      \* build_line_columns' result: M0, M1, M2 of each row
  outputs,           \* the result sinks main() has written so far
  error              \* the exception that ended the run, if any

vars == <<machines, routing_df, plan_df, batches, batch_items, batch_remaining,
          machine_free, line_assignments, machine_schedule, pc, day_idx, bpos,
          cpos, candidates, remaining, schedule_in, cp_args, cp_result,
          machine_sheet, plan_sheet, line_columns, outputs, error>>

inputs == <<machines, routing_df, plan_df>>
cp_vars == <<cp_args, cp_result>>
sheet_vars == <<machine_sheet, plan_sheet, line_columns>>
sink_vars == <<outputs, error>>

\* no exception; a raised one carries the brand its message names
NoError == [raised |-> FALSE, brand |-> ""]
Raised(brand) == [raised |-> TRUE, brand |-> brand]

\* every variable but the inputs, before main() has run a step
Blank ==
  /\ batches = <<>>
  /\ batch_items = <<>>
  /\ batch_remaining = <<>>
  /\ machine_free = <<>>
  /\ line_assignments = <<>>
  /\ machine_schedule = <<>>
  /\ day_idx = 0
  /\ bpos = 0
  /\ cpos = 0
  /\ candidates = <<>>
  /\ remaining = 0
  /\ schedule_in = <<>>
  /\ line_columns = <<>>
  /\ outputs = {}
  /\ error = NoError

Init ==
  /\ machines \in Registries
  /\ routing_df \in Routings
  /\ plan_df \in Plans
  /\ batches = <<>>
  /\ batch_items = <<>>
  /\ batch_remaining = <<>>
  /\ machine_free = <<>>
  /\ line_assignments = <<>>
  /\ machine_schedule = <<>>
  /\ pc = "build_batches"
  /\ day_idx = 0
  /\ bpos = 0
  /\ cpos = 0
  /\ candidates = <<>>
  /\ remaining = 0
  /\ schedule_in = <<>>
  /\ cp_args = "none"
  /\ cp_result = FALSE
  /\ machine_sheet = <<>>
  /\ plan_sheet = <<>>
  /\ line_columns = <<>>
  /\ outputs = {}
  /\ error = NoError

\* main(), step 3
BuildBatches ==
  /\ pc = "build_batches"
  /\ LET r == build_batches(plan_df)
     IN IF r.ok THEN batches' = r.batches /\ pc' = "distribute_start" /\ error' = error
        ELSE batches' = <<>> /\ pc' = "error" /\ error' = Raised(r.brand)
  /\ UNCHANGED <<inputs, batch_items, batch_remaining, machine_free, line_assignments,
                 machine_schedule, day_idx, bpos, cpos, candidates, remaining,
                 schedule_in, cp_vars, sheet_vars, outputs>>

\* distribute_batches, lines 566-588
DistributeStart ==
  /\ pc = "distribute_start"
  /\ batch_remaining' = initial_batch_remaining(batches)
  /\ machine_free' = initial_machine_free(machines)
  /\ line_assignments' = <<>>
  /\ machine_schedule' = <<>>
  /\ batch_items' = batch_order(batches)
  /\ day_idx' = 0
  /\ bpos' = 1
  /\ cpos' = 0
  /\ pc' = "distribute"
  /\ UNCHANGED <<inputs, batches, candidates, remaining, schedule_in, cp_vars, sheet_vars, sink_vars>>

\* the batch loop starting over on the same day after the last batch
NextBatchSameDay(sched) ==
  /\ cpos' = 0
  /\ candidates' = <<>>
  /\ remaining' = 0
  /\ IF bpos < Len(batch_items)
     THEN bpos' = bpos + 1 /\ day_idx' = day_idx /\ pc' = pc /\ schedule_in' = schedule_in
     ELSE IF day_idx < MAX_SHIFT_DAYS
     THEN bpos' = 1 /\ day_idx' = day_idx /\ pc' = pc /\ schedule_in' = schedule_in
     ELSE bpos' = 1 /\ day_idx' = 0 /\ pc' = "balance" /\ schedule_in' = sched

\* the loops of lines 591-592 move on to the next batch, the next day, or
\* return; sched is machine_schedule as the step leaves it
NextBatch(sched) ==
  /\ cpos' = 0
  /\ candidates' = <<>>
  /\ remaining' = 0
  /\ IF bpos < Len(batch_items)
     THEN bpos' = bpos + 1 /\ day_idx' = day_idx /\ pc' = pc /\ schedule_in' = schedule_in
     ELSE IF day_idx < MAX_SHIFT_DAYS
     THEN bpos' = 1 /\ day_idx' = day_idx + 1 /\ pc' = pc /\ schedule_in' = schedule_in
     ELSE bpos' = 1 /\ day_idx' = 0 /\ pc' = "balance" /\ schedule_in' = sched

\* lines 593-604: the batch at the head of the loop body
BatchHead ==
  /\ pc = "distribute"
  /\ cpos = 0
  /\ LET batch == batches[batch_items[bpos]]
         rem == IF batch.key \in DOMAIN batch_remaining THEN batch_remaining[batch.key] ELSE 0
     IN \E cands \in get_candidate_machines_for_product(machines, routing_df, batch.Type,
                                                        batch.Category, batch.Recipe) :
          IF rem <= 0 \/ cands = <<>>
          THEN NextBatch(machine_schedule)
          ELSE /\ remaining' = rem
               /\ candidates' = cands
               /\ cpos' = 1
               /\ UNCHANGED <<pc, day_idx, bpos, schedule_in>>
  /\ UNCHANGED <<inputs, batches, batch_items, batch_remaining, machine_free,
                 line_assignments, machine_schedule, cp_vars, sheet_vars, sink_vars>>

\* the candidate loop moves on to the next candidate or leaves the batch
NextCandidate(sched, rem) ==
  IF cpos < Len(candidates)
  THEN /\ cpos' = cpos + 1
       /\ remaining' = rem
       /\ UNCHANGED <<pc, day_idx, bpos, candidates, schedule_in>>
  ELSE NextBatch(sched)

\* lines 606-638: the loop body for one candidate, one allocation step
Candidate ==
  /\ pc = "distribute"
  /\ cpos >= 1
  /\ LET pos == batch_items[bpos]
         batch == batches[pos]
         mach == candidates[cpos]
         free == FreeOf(machine_free, day_idx, mach.id)
         take == take_qty(free, remaining)
         alloc == allocate_to_lines(batch, take, day_idx, line_assignments)
         real_take == take - alloc.need
         sched == Record(machine_schedule, day_idx, mach.id, batch.key, alloc.brand_alloc)
     IN IF free <= 0 \/ remaining <= 0
        THEN /\ NextCandidate(machine_schedule, remaining)
             /\ UNCHANGED <<batches, line_assignments, batch_remaining, machine_free,
                            machine_schedule>>
        ELSE IF real_take <= 0
        THEN /\ batches' = [batches EXCEPT ![pos].lines = alloc.lines]
             /\ line_assignments' = alloc.la
             /\ NextCandidate(machine_schedule, remaining)
             /\ UNCHANGED <<batch_remaining, machine_free, machine_schedule>>
        ELSE /\ batches' = [batches EXCEPT ![pos].lines = alloc.lines]
             /\ line_assignments' = alloc.la
             /\ batch_remaining' = [batch_remaining EXCEPT ![batch.key] = remaining - real_take]
             /\ machine_free' = [machine_free EXCEPT ![<<day_idx, mach.id>>] = free - real_take]
             /\ machine_schedule' = sched
             /\ IF remaining - real_take <= 0
                THEN NextBatch(sched)
                ELSE NextCandidate(sched, remaining - real_take)
  /\ UNCHANGED <<inputs, batch_items, cp_vars, sheet_vars, sink_vars>>

\* balance_soy_pp_between_two_machines, lines 660-672: a twin is missing or
\* the priorities differ, the pass returns at once
BalanceSkipped ==
  /\ pc = "balance"
  /\ ~balance_guard(machines)
  /\ pc' = "done"
  /\ UNCHANGED <<inputs, batches, batch_items, batch_remaining, machine_free,
                 line_assignments, machine_schedule, day_idx, bpos, cpos, candidates,
                 remaining, schedule_in, cp_vars, sheet_vars, sink_vars>>

\* balance_soy_pp_between_two_machines, lines 675-779: one day of the pass
BalanceDay ==
  /\ pc = "balance"
  /\ balance_guard(machines)
  /\ machine_schedule' = balance_day(machine_schedule, machines, batches, day_idx)
  /\ IF day_idx < MAX_SHIFT_DAYS
     THEN day_idx' = day_idx + 1 /\ pc' = pc
     ELSE day_idx' = day_idx /\ pc' = "done"
  /\ UNCHANGED <<inputs, batches, batch_items, batch_remaining, machine_free,
                 line_assignments, bpos, cpos, candidates, remaining, schedule_in, cp_vars, sheet_vars, sink_vars>>

\* main(), step 6: build_line_columns(plan_df.copy(), line_assignments)
BuildLineColumns ==
  /\ pc = "done"
  /\ line_columns' = build_line_columns(plan_df, line_assignments)
  /\ pc' = "written"
  /\ UNCHANGED <<inputs, batches, batch_items, batch_remaining, machine_free,
                 line_assignments, machine_schedule, day_idx, bpos, cpos, candidates,
                 remaining, schedule_in, cp_vars, machine_sheet, plan_sheet, sink_vars>>

Next ==
  \/ BuildBatches
  \/ DistributeStart
  \/ BatchHead
  \/ Candidate
  \/ BalanceSkipped
  \/ BalanceDay
  \/ BuildLineColumns

Spec == Init /\ [][Next]_vars

\* ------------------------------------------ Machine.can_produce on its own
RawTexts == {<<>>, <<" ">>, <<"g">>, <<"g", " ">>, <<"k">>, <<"P", "P">>}

RawLists == {<<>>, << <<"g">> >>, << <<" ">> >>, << <<"g">>, <<"k">> >>, << <<" ", "k">> >>}

InitCanProduce ==
  /\ cp_args \in [categories : RawLists, types : RawLists, product_type : RawTexts, category : RawTexts]
  /\ cp_result = FALSE
  /\ pc = "can_produce"
  /\ machines = <<>>
  /\ routing_df = <<>>
  /\ plan_df = <<>>
  /\ batches = <<>>
  /\ batch_items = <<>>
  /\ batch_remaining = <<>>
  /\ machine_free = <<>>
  /\ line_assignments = <<>>
  /\ machine_schedule = <<>>
  /\ day_idx = 0
  /\ bpos = 0
  /\ cpos = 0
  /\ candidates = <<>>
  /\ remaining = 0
  /\ schedule_in = <<>>
  /\ machine_sheet = <<>>
  /\ plan_sheet = <<>>
  /\ line_columns = <<>>
  /\ outputs = {}
  /\ error = NoError

cp_machine == Machine("m", cp_args.categories, cp_args.types, 1, 1, TRUE)

\* a Machine is built from the sheet row and asked can_produce(type, category)
CallCanProduce ==
  /\ pc = "can_produce"
  /\ cp_result' = can_produce(cp_machine, cp_args.product_type, cp_args.category)
  /\ pc' = "returned"
  /\ UNCHANGED <<inputs, batches, batch_items, batch_remaining, machine_free,
                 line_assignments, machine_schedule, day_idx, bpos, cpos, candidates,
                 remaining, schedule_in, cp_args, sheet_vars, sink_vars>>

NextCanProduce == CallCanProduce

SpecCanProduce == InitCanProduce /\ [][NextCanProduce]_vars

\* --------------------------- get_candidate_machines_for_product on its own
\* the product class asked for, as the caller passes it
AskedClass == [product_type |-> <<"P", "P", " ">>, category |-> SoyCategory, recipe |-> TheRecipe]

\* a registry of three machines: priorities tie or differ, the second and the
\* third machine may be inactive or limited to another category
CandRegistries ==
  {<<Machine("soy_pp_1", <<>>, <<>>, 1, p1, TRUE),
     Machine("soy_pp_2", s2.categories, <<>>, 1, p2, s2.active),
     Machine("m3", s3.categories, <<>>, 1, 1, s3.active)>> :
     p1 \in {1, 2}, p2 \in {1, 2},
     s2 \in {[categories |-> <<>>, active |-> TRUE],
             [categories |-> <<GingerCategory>>, active |-> TRUE],
             [categories |-> <<>>, active |-> FALSE]},
     s3 \in {[categories |-> <<>>, active |-> TRUE],
             [categories |-> <<GingerCategory>>, active |-> TRUE],
             [categories |-> <<>>, active |-> FALSE]}}

\* routing rules: for the asked class (padded with blanks) or another one,
\* active or not, naming a machine of the registry or an unknown one
CandRules ==
  {[Type |-> SoyType, Category |-> <<" ">> \o SoyCategory, Recipe |-> k.recipe,
    Preferred_Machine_ID |-> target, Priority |-> prio, Active |-> k.active] :
     target \in {"soy_pp_2", "m3", "zz"}, prio \in {1, 2},
     k \in {[recipe |-> <<"r", " ">>, active |-> TRUE],
            [recipe |-> <<"r", " ">>, active |-> FALSE],
            [recipe |-> <<"q">>, active |-> TRUE]}}

CandRoutings == UNION {[1..n -> CandRules] : n \in 0..MaxRules}

InitCandidates ==
  /\ machines \in CandRegistries
  /\ routing_df \in CandRoutings
  /\ cp_args = AskedClass
  /\ cp_result = FALSE
  /\ pc = "resolve"
  /\ plan_df = <<>>
  /\ machine_sheet = <<>>
  /\ plan_sheet = <<>>
  /\ Blank

\* one call of get_candidate_machines_for_product
ResolveCandidates ==
  /\ pc = "resolve"
  /\ candidates' \in get_candidate_machines_for_product(machines, routing_df, cp_args.product_type,
                                                        cp_args.category, cp_args.recipe)
  /\ pc' = "resolved"
  /\ UNCHANGED <<inputs, batches, batch_items, batch_remaining, machine_free,
                 line_assignments, machine_schedule, day_idx, bpos, cpos, remaining,
                 schedule_in, cp_vars, sheet_vars, sink_vars>>

NextCandidates == ResolveCandidates

SpecCandidates == InitCandidates /\ [][NextCandidates]_vars

\* ------------------------------------------------- build_batches on its own
\* product classes of plan rows: the soy class, the same padded with a blank,
\* and two classes whose texts hold the key separator
BuildClasses ==
  {[Type |-> SoyType, Category |-> SoyCategory],
   [Type |-> <<" ">> \o SoyType, Category |-> SoyCategory],
   [Type |-> <<"a", "|", "|", "b">>, Category |-> <<"c">>],
   [Type |-> <<"a">>, Category |-> <<"b", "|", "|", "c">>]}

\* a plan row of one unit: any class and an integer priority, or a row of
\* the soy class with a blank recipe
BuildRows ==
  {[Type |-> c.Type, Category |-> c.Category, Recipe |-> TheRecipe, priority |-> p] :
     c \in BuildClasses, p \in {-1, 0, 10}}
  \cup {[Type |-> SoyType, Category |-> SoyCategory, Recipe |-> <<" ">>, priority |-> 0]}

\* the brand of the i-th row of the plan
RowBrand(i) == IF i = 1 THEN "a" ELSE IF i = 2 THEN "b" ELSE IF i = 3 THEN "c" ELSE "d"

BuildPlans ==
  UNION {{[i \in 1..n |-> [idx |-> i - 1, Brand |-> RowBrand(i), Type |-> rows[i].Type,
                           Category |-> rows[i].Category, Recipe |-> rows[i].Recipe,
                           PLAN |-> 1, priority |-> rows[i].priority]] :
            rows \in [1..n -> BuildRows]} : n \in 1..MaxLines}

InitBuildBatches ==
  /\ plan_df \in BuildPlans
  /\ machines = <<>>
  /\ routing_df = <<>>
  /\ cp_args = "none"
  /\ cp_result = FALSE
  /\ pc = "build_batches"
  /\ machine_sheet = <<>>
  /\ plan_sheet = <<>>
  /\ Blank

NextBuildBatches == BuildBatches

SpecBuildBatches == InitBuildBatches /\ [][NextBuildBatches]_vars

\* ------------------------------------------ load_machine_settings on its own
\* rows of the Machines sheet: a blank or a present id, a capacity cell that is
\* negative, zero, positive, empty or text, and priority/active cells
SheetRows ==
  {[Machine_ID |-> id, Category_Allowed |-> <<>>, Type_Allowed |-> <<>>,
    Daily_Capacity_cases |-> cap, Priority |-> k.Priority, Active |-> k.Active] :
     id \in {"", "soy_pp_1", "m3"},
     cap \in {IntCell(-1), IntCell(0), IntCell(MaxCap), StrCell(<<>>), StrCell(<<"x">>)},
     k \in {[Priority |-> IntCell(1), Active |-> BoolCell(TRUE)],
            [Priority |-> StrCell(<<>>), Active |-> BoolCell(FALSE)],
            [Priority |-> IntCell(0), Active |-> StrCell(<<"y", "e", "s", " ">>)],
            [Priority |-> StrCell(<<"x">>), Active |-> StrCell(<<"n", "o">>)]}}

Sheets == UNION {[1..n -> SheetRows] : n \in 0..MaxSheetRows}

InitLoad ==
  /\ machine_sheet \in Sheets
  /\ machines = <<>>
  /\ routing_df = <<>>
  /\ plan_df = <<>>
  /\ plan_sheet = <<>>
  /\ cp_args = "none"
  /\ cp_result = FALSE
  /\ pc = "load"
  /\ Blank

\* one call of load_machine_settings
LoadMachineSettings ==
  /\ pc = "load"
  /\ machines' = load_machine_settings(machine_sheet)
  /\ pc' = "loaded"
  /\ UNCHANGED <<routing_df, plan_df, batches, batch_items, batch_remaining, machine_free,
                 line_assignments, machine_schedule, day_idx, bpos, cpos, candidates,
                 remaining, schedule_in, cp_vars, sheet_vars, sink_vars>>

NextLoad == LoadMachineSettings

SpecLoad == InitLoad /\ [][NextLoad]_vars

\* ------------------------------------------------- main() from the plan sheet
\* rows of the plan sheet after the merge with Brands: PLAN may be 0, empty
\* or text; one kind of row has a blank recipe
SheetPlanRows ==
  {[Brand |-> kind.Brand, Type |-> kind.Type, Category |-> kind.Category,
    Recipe |-> kind.Recipe, priority |-> kind.priority, PLAN |-> cell] :
     kind \in {k \in LineKinds : k.Type = SoyType},
     cell \in {IntCell(0), IntCell(1), IntCell(MaxPlan), StrCell(<<"x">>)}}
  \cup {[Brand |-> "c", Type |-> SoyType, Category |-> SoyCategory, Recipe |-> <<" ">>,
         priority |-> 0, PLAN |-> IntCell(1)]}

PlanSheets == UNION {[1..n -> SheetPlanRows] : n \in 1..MaxLines}

\* the registry load_machine_settings returned; it may be empty
SheetRegistries ==
  {<<Machine("soy_pp_1", <<>>, <<>>, MaxCap, 1, TRUE), Machine("soy_pp_2", <<>>, <<>>, MaxCap, 1, TRUE)>>,
   <<Machine("soy_pp_1", <<>>, <<>>, 1, 1, TRUE), Machine("m3", <<>>, <<>>, 1, 1, TRUE)>>,
   <<>>}

InitFromSheet ==
  /\ plan_sheet \in PlanSheets
  /\ machines \in SheetRegistries
  /\ routing_df = <<>>
  /\ plan_df = <<>>
  /\ machine_sheet = <<>>
  /\ cp_args = "none"
  /\ cp_result = FALSE
  /\ pc = "enrich"
  /\ Blank

\* main(), step 1: enrich_plan_with_brands filters the plan and raises when
\* nothing is left
EnrichFilter ==
  /\ pc = "enrich"
  /\ plan_df' = plan_filter(plan_sheet)
  /\ IF plan_filter(plan_sheet) = <<>>
     THEN pc' = "error" /\ error' = Raised("")
     ELSE pc' = "settings" /\ error' = error
  /\ UNCHANGED <<machines, routing_df, batches, batch_items, batch_remaining, machine_free,
                 line_assignments, machine_schedule, day_idx, bpos, cpos, candidates,
                 remaining, schedule_in, cp_vars, sheet_vars, outputs>>

\* steps 1 and 2 raise when a spreadsheet, a worksheet or a mandatory column
\* is missing (lines 143-170, 209, 345-373, 397, 433-440)
SourceMissing ==
  /\ pc \in {"enrich", "settings"}
  /\ pc' = "error"
  /\ error' = Raised("")
  /\ UNCHANGED <<inputs, batches, batch_items, batch_remaining, machine_free,
                 line_assignments, machine_schedule, day_idx, bpos, cpos, candidates,
                 remaining, schedule_in, cp_vars, sheet_vars, outputs>>

\* "if not machines" with the test left out
registry_check_none(ms) == TRUE

\* line 1088: "if not machines: raise ValueError"
registry_check(ms) == ms # <<>>

\* main(), step 2: the settings are loaded and the registry must not be empty
CheckMachines ==
  /\ pc = "settings"
  /\ IF registry_check(machines)
     THEN pc' = "build_batches" /\ error' = error
     ELSE pc' = "error" /\ error' = Raised("")
  /\ UNCHANGED <<inputs, batches, batch_items, batch_remaining, machine_free,
                 line_assignments, machine_schedule, day_idx, bpos, cpos, candidates,
                 remaining, schedule_in, cp_vars, sheet_vars, outputs>>

\* a result sink is written, or the write raises (an API failure) and the
\* run ends in the handler of lines 1125-1141
WriteSink(at, sink, then) ==
  /\ pc = at
  /\ \/ outputs' = outputs \cup {sink} /\ pc' = then /\ error' = error
     \/ outputs' = outputs /\ pc' = "io_error" /\ error' = Raised("")
  /\ UNCHANGED <<inputs, batches, batch_items, batch_remaining, machine_free,
                 line_assignments, machine_schedule, day_idx, bpos, cpos, candidates,
                 remaining, schedule_in, cp_vars, sheet_vars>>

\* main(), step 6: write_plan_back_to_sheet
WritePlanBack == WriteSink("written", "plan_sheet", "plan_out")

\* main(), step 7: write_machine_plan_sheet
WriteMachinePlan == WriteSink("plan_out", "machine_plan", "machine_plan_out")

\* main(), step 8: the plan messages; send_telegram swallows send failures
Notify ==
  /\ pc = "machine_plan_out"
  /\ outputs' = outputs \cup {"telegram"}
  /\ pc' = "finished"
  /\ UNCHANGED <<inputs, batches, batch_items, batch_remaining, machine_free,
                 line_assignments, machine_schedule, day_idx, bpos, cpos, candidates,
                 remaining, schedule_in, cp_vars, sheet_vars, error>>

NextFromSheet ==
  \/ EnrichFilter
  \/ SourceMissing
  \/ CheckMachines
  \/ BuildBatches
  \/ DistributeStart
  \/ BatchHead
  \/ Candidate
  \/ BalanceSkipped
  \/ BalanceDay
  \/ BuildLineColumns
  \/ WritePlanBack
  \/ WriteMachinePlan
  \/ Notify

SpecFromSheet == InitFromSheet /\ [][NextFromSheet]_vars

\* ------------------------------------------- the ledgers and a second pass
\* plans with a blank brand in the balanced product class, twins limited to
\* that class, and the balancing pass run a second time on its own result
LedgerKinds ==
  {[Type |-> SoyType, Category |-> SoyCategory, Recipe |-> TheRecipe, Brand |-> "a", priority |-> 0],
   [Type |-> SoyType, Category |-> SoyCategory, Recipe |-> TheRecipe, Brand |-> "", priority |-> 0],
   [Type |-> OtherType, Category |-> BlankCategory, Recipe |-> TheRecipe, Brand |-> "b", priority |-> 10]}

LedgerPlans ==
  UNION {{[i \in 1..n |-> PlanRow(i, rows[i].kind, rows[i].qty)] :
            rows \in [1..n -> [kind : LedgerKinds, qty : Quantities]]} : n \in 1..MaxLines}

LedgerRegistries ==
  LET twins == {<<Machine("soy_pp_1", <<>>, << <<"P", "P">> >>, cap, 1, TRUE),
                  Machine("soy_pp_2", <<>>, << <<"P", "P">> >>, MaxCap, prio, TRUE)>> :
                  cap \in Capacities, prio \in {1, 2}}
  IN twins \cup {Append(t, Machine("m3", <<>>, <<>>, 1, 1, TRUE)) : t \in twins}

InitLedger ==
  /\ machines \in LedgerRegistries
  /\ routing_df = <<>>
  /\ plan_df \in LedgerPlans
  /\ pc = "build_batches"
  /\ cp_args = "none"
  /\ cp_result = FALSE
  /\ machine_sheet = <<>>
  /\ plan_sheet = <<>>
  /\ Blank

RECURSIVE balance_days(_, _, _, _)
\* lines 675-779: the loop over the days of the horizon, from day d on
balance_days(sched, ms, bs, d) ==
  IF d > MAX_SHIFT_DAYS THEN sched
  ELSE balance_days(balance_day(sched, ms, bs, d), ms, bs, d + 1)

\* balance_soy_pp_between_two_machines, one whole call
balance_soy_pp_between_two_machines(sched, ms, bs) ==
  IF balance_guard(ms) THEN balance_days(sched, ms, bs, 0) ELSE sched

\* the balancing pass called again on the ledger the first call left
BalanceAgain ==
  /\ pc = "done"
  /\ machine_schedule' = balance_soy_pp_between_two_machines(machine_schedule, machines, batches)
  /\ pc' = "balanced_twice"
  /\ UNCHANGED <<inputs, batches, batch_items, batch_remaining, machine_free,
                 line_assignments, day_idx, bpos, cpos, candidates, remaining,
                 schedule_in, cp_vars, sheet_vars, sink_vars>>

NextLedger ==
  \/ BuildBatches
  \/ DistributeStart
  \/ BatchHead
  \/ Candidate
  \/ BalanceSkipped
  \/ BalanceDay
  \/ BalanceAgain

SpecLedger == InitLedger /\ [][NextLedger]_vars

\* ----------------------------------------------------------------- claims
\* distribute_batches has set up its state
Started == pc \in {"distribute", "balance", "done"}

\* the ledger as distribute_batches has it, during the run and at its end
AllocSchedule == IF pc = "distribute" THEN machine_schedule ELSE schedule_in

BatchRequired(batch) == SumSeq([j \in DOMAIN batch.lines |-> batch.lines[j].PLAN])

\* quantity of one batch in one ledger
BatchQtyIn(ledger, key) ==
  SumSeq([j \in DOMAIN ledger |-> IF ledger[j].k[1] = key THEN ledger[j].qty ELSE 0])

\* quantity of one batch over all (day, machine) ledgers
AllocatedTotal(sched, key) ==
  SumSeq([i \in DOMAIN sched |-> BatchQtyIn(sched[i].ledger, key)])

\* C1: for every batch, the quantity required at the start equals the quantity
\* recorded for it in the ledgers of all (day, machine) plus batch_remaining,
\* in every state of distribute_batches and at its end.
C1_Conservation ==
  Started =>
    \A i \in DOMAIN batches :
      BatchRequired(batches[i]) =
        AllocatedTotal(AllocSchedule, batches[i].key) + batch_remaining[batches[i].key]

\* a batch with two lines of one brand is part allocated, on two ledgers, part remaining
C1_Witness ==
  /\ pc = "distribute"
  /\ \E i \in DOMAIN batches :
       /\ batch_remaining[batches[i].key] > 0
       /\ Cardinality({p \in DOMAIN machine_schedule :
                         BatchQtyIn(machine_schedule[p].ledger, batches[i].key) > 0}) >= 2
       /\ \E j, l \in DOMAIN batches[i].lines :
            j # l /\ batches[i].lines[j].Brand = batches[i].lines[l].Brand

\* C2: during distribute_batches and at its end, the ledger of every
\* (day, machine) sums to at most the machine's daily capacity.
C2_CapacityRespect ==
  Started =>
    \A i \in DOMAIN AllocSchedule :
      LedgerTotal(AllocSchedule[i].ledger)
        <= GetMachine(machines, AllocSchedule[i].mid).daily_capacity

\* a machine is filled to its capacity while some batch still has a remainder
C2_Witness ==
  /\ pc = "distribute"
  /\ \E i \in DOMAIN machine_schedule :
       LedgerTotal(machine_schedule[i].ledger)
         = GetMachine(machines, machine_schedule[i].mid).daily_capacity
  /\ \E i \in DOMAIN batches : batch_remaining[batches[i].key] > 0

TwinIds == {soy_machine_ids[1], soy_machine_ids[2]}

\* C3: after the balancing pass, the ledger of each twin on each day, all
\* entries counted, sums to at most the twin's daily capacity.
C3_CapacityAfterBalance ==
  pc = "done" =>
    \A i \in DOMAIN machine_schedule :
      machine_schedule[i].mid \in TwinIds =>
        LedgerTotal(machine_schedule[i].ledger)
          <= GetMachine(machines, machine_schedule[i].mid).daily_capacity

\* the machine is active and its filters admit the batch of every entry of the ledger
EligibleLedger(mid, ledger) ==
  \A j \in DOMAIN ledger :
    /\ GetMachine(machines, mid).active
    /\ can_produce(GetMachine(machines, mid),
                   GetBatch(batches, ledger[j].k[1]).Type,
                   GetBatch(batches, ledger[j].k[1]).Category)

\* C4: every ledger entry written by distribute_batches is on a machine that
\* is active and whose filters admit the type and category of the batch.
C4_Eligibility ==
  Started =>
    \A i \in DOMAIN AllocSchedule :
      EligibleLedger(AllocSchedule[i].mid, AllocSchedule[i].ledger)

\* a batch has been allocated although a machine of the registry, named by
\* a routing rule for its product class, is inactive or rejects it
C4_Witness ==
  /\ pc = "distribute"
  /\ \E i \in DOMAIN batches :
       /\ AllocatedTotal(machine_schedule, batches[i].key) > 0
       /\ \E r \in DOMAIN routing_df, m \in DOMAIN machines :
            /\ routing_df[r].Preferred_Machine_ID = machines[m].id
            /\ Strip(routing_df[r].Type) = batches[i].Type
            /\ Strip(routing_df[r].Category) = batches[i].Category
            /\ Strip(routing_df[r].Recipe) = batches[i].Recipe
            /\ machines[m].active
            /\ ~can_produce(machines[m], batches[i].Type, batches[i].Category)

\* C5: after the balancing pass, every ledger entry on a twin is of a batch
\* the twin's filters admit, and the twin is active.
C5_EligibilityAfterBalance ==
  pc = "done" =>
    \A i \in DOMAIN machine_schedule :
      machine_schedule[i].mid \in TwinIds =>
        EligibleLedger(machine_schedule[i].mid, machine_schedule[i].ledger)

\* the (batch key, brand) units of the twins' ledgers of day d, before or after the pass
TwinUnits(d) ==
  {e.k : e \in UNION {{l[j] : j \in DOMAIN l} :
                        l \in {Ledger(sch, d, mid) : sch \in {schedule_in, machine_schedule},
                                                     mid \in TwinIds}}}

\* C6 as claimed: after distribute_batches and the balancing pass, no unit
\* matching the balancing filter has a positive quantity on both twins on
\* one day.
C6_AtomicPipeline ==
  pc = "done" =>
    \A d \in Days : \A k \in TwinUnits(d) :
      MatchesFilter(batches, k[1]) =>
        ~ /\ LedgerQty(Ledger(machine_schedule, d, soy_machine_ids[1]), k) > 0
          /\ LedgerQty(Ledger(machine_schedule, d, soy_machine_ids[2]), k) > 0

\* C6 amended: the balancing pass moves units whole. For every day and every
\* unit, either its quantities on the two twins are as distribute_batches
\* left them, or one twin holds nothing of it and the other holds the sum
\* of both.
C6_BalancerMovesWhole ==
  pc \in {"balance", "done"} =>
    \A d \in Days : \A k \in TwinUnits(d) :
      LET a1 == LedgerQty(Ledger(schedule_in, d, soy_machine_ids[1]), k)
          a2 == LedgerQty(Ledger(schedule_in, d, soy_machine_ids[2]), k)
          b1 == LedgerQty(Ledger(machine_schedule, d, soy_machine_ids[1]), k)
          b2 == LedgerQty(Ledger(machine_schedule, d, soy_machine_ids[2]), k)
      IN \/ b1 = a1 /\ b2 = a2
         \/ b1 = 0 /\ b2 = a1 + a2
         \/ b2 = 0 /\ b1 = a1 + a2

\* the pass has moved a unit although a larger unit stayed on the donor
C6_Witness ==
  /\ pc = "done"
  /\ \E d \in Days : \E k, k2 \in TwinUnits(d) : \E t \in 1..2 :
       /\ LedgerQty(Ledger(machine_schedule, d, soy_machine_ids[t]), k)
            < LedgerQty(Ledger(schedule_in, d, soy_machine_ids[t]), k)
       /\ MatchesFilter(batches, k2[1])
       /\ LedgerQty(Ledger(machine_schedule, d, soy_machine_ids[t]), k2) > 0

\* C7: when the twins' priorities differ, the balancing pass leaves the
\* whole ledger, keys and quantities, as distribute_batches returned it.
C7_PriorityGuard ==
  (/\ pc = "done"
   /\ HasMachine(machines, soy_machine_ids[1])
   /\ HasMachine(machines, soy_machine_ids[2])
   /\ GetMachine(machines, soy_machine_ids[1]).priority
        # GetMachine(machines, soy_machine_ids[2]).priority)
    => machine_schedule = schedule_in

\* the priorities differ and the loads are skewed enough for a day of the
\* pass to move something, had it run
C7_Witness ==
  /\ pc = "done"
  /\ HasMachine(machines, soy_machine_ids[1])
  /\ HasMachine(machines, soy_machine_ids[2])
  /\ GetMachine(machines, soy_machine_ids[1]).priority
       # GetMachine(machines, soy_machine_ids[2]).priority
  /\ \E d \in Days : balance_day(schedule_in, machines, batches, d) # schedule_in

\* batch h is served before batch l: higher priority, or equal priority and
\* earlier in the insertion order of the batch keys
ServedBefore(h, l) ==
  \/ batches[h].priority > batches[l].priority
  \/ batches[h].priority = batches[l].priority /\ h < l

CandidateIds(i) ==
  UNION {{c[j].id : j \in DOMAIN c} :
           c \in get_candidate_machines_for_product(machines, routing_df, batches[i].Type,
                                                    batches[i].Category, batches[i].Recipe)}

\* C8: of two batches that can both use a machine, the one served later
\* (lower priority, or equal priority and later batch key) has a positive
\* quantity on that machine on some day only if nothing remains of the
\* other.
C8_PriorityOrder ==
  Started =>
    \A h, l \in DOMAIN batches :
      (h # l /\ ServedBefore(h, l)) =>
        \A mid \in CandidateIds(h) \cap CandidateIds(l) : \A d \in Days :
          BatchQtyIn(Ledger(AllocSchedule, d, mid), batches[l].key) > 0
            => batch_remaining[batches[h].key] = 0

\* two batches share a machine on one day, and the one with the higher
\* priority has the later batch key
C8_Witness ==
  /\ pc = "distribute"
  /\ \E h, l \in DOMAIN batches :
       /\ batches[h].priority > batches[l].priority
       /\ h > l
       /\ \E mid \in CandidateIds(h) \cap CandidateIds(l) : \E d \in Days :
            /\ BatchQtyIn(Ledger(machine_schedule, d, mid), batches[l].key) > 0
            /\ BatchQtyIn(Ledger(machine_schedule, d, mid), batches[h].key) > 0

\* C10 as claimed: can_produce is true exactly when (the category set is
\* empty or the category is in it) and (the type set is empty or the type is
\* in it).
C10_CanProduceAsClaimed ==
  pc = "returned" =>
    cp_result = (/\ cp_machine.categories = {} \/ cp_args.category \in cp_machine.categories
                 /\ cp_machine.types = {} \/ cp_args.product_type \in cp_machine.types)

\* C10 amended: can_produce is true exactly when (the category set is empty,
\* or the category stripped of blanks is empty or in the set) and (the type
\* set is empty, or the type stripped of blanks is empty or in the set).
C10_CanProduce ==
  pc = "returned" =>
    cp_result = (/\ \/ cp_machine.categories = {}
                    \/ Strip(cp_args.category) = <<>>
                    \/ Strip(cp_args.category) \in cp_machine.categories
                 /\ \/ cp_machine.types = {}
                    \/ Strip(cp_args.product_type) = <<>>
                    \/ Strip(cp_args.product_type) \in cp_machine.types)

\* a blank category was admitted by a machine whose category set is not empty
C10_Witness ==
  /\ pc = "returned"
  /\ cp_machine.categories # {}
  /\ Strip(cp_args.category) = <<>>
  /\ cp_result = TRUE

\* the registry machines that are active and whose filters admit the asked class
EligibleIds ==
  {machines[i].id : i \in {j \in DOMAIN machines :
     /\ machines[j].active
     /\ can_produce(machines[j], Strip(cp_args.product_type), Strip(cp_args.category))}}

\* the machines an active rule for the asked class names
Routed(mid) ==
  \E i \in DOMAIN routing_df :
    /\ routing_df[i].Active
    /\ Strip(routing_df[i].Type) = Strip(cp_args.product_type)
    /\ Strip(routing_df[i].Category) = Strip(cp_args.category)
    /\ Strip(routing_df[i].Recipe) = Strip(cp_args.recipe)
    /\ routing_df[i].Preferred_Machine_ID = mid

FirstRulePriority(mid) ==
  CHOOSE p \in {1, 2} :
    /\ \E i \in DOMAIN matching_rules(routing_df, cp_args.product_type, cp_args.category, cp_args.recipe) :
         LET r == matching_rules(routing_df, cp_args.product_type, cp_args.category, cp_args.recipe)[i]
         IN r.Preferred_Machine_ID = mid /\ r.Priority = p
    /\ \A i \in DOMAIN matching_rules(routing_df, cp_args.product_type, cp_args.category, cp_args.recipe) :
         LET r == matching_rules(routing_df, cp_args.product_type, cp_args.category, cp_args.recipe)[i]
         IN r.Preferred_Machine_ID = mid => r.Priority >= p

RegistryPos(mid) == CHOOSE i \in DOMAIN machines : machines[i].id = mid

BatchesOfRow(r) ==
  {b \in DOMAIN batches : \E j \in DOMAIN batches[b].lines : batches[b].lines[j].idx = plan_df[r].idx}

\* C13: build_batches puts every plan row into exactly one batch, and that
\* batch is the one of the row's own (Type, Category, Recipe), compared
\* after stripping blanks as the code does.
C13_OneBatchPerClass ==
  pc = "distribute_start" =>
    \A r \in DOMAIN plan_df :
      /\ Cardinality(BatchesOfRow(r)) = 1
      /\ \A b \in BatchesOfRow(r) :
           /\ batches[b].Type = Strip(plan_df[r].Type)
           /\ batches[b].Category = Strip(plan_df[r].Category)
           /\ batches[b].Recipe = Strip(plan_df[r].Recipe)

\* the plan rows whose lines batch b holds
RowsOfBatch(b) ==
  {r \in DOMAIN plan_df : \E j \in DOMAIN batches[b].lines : batches[b].lines[j].idx = plan_df[r].idx}

C15_FreeNeverNegative ==
  pc = "distribute" =>
    \A d \in Days : \A i \in DOMAIN machines :
      FreeOf(machine_free, d, machines[i].id) >= 0

\* C16: every machine load_machine_settings returns has a positive daily
\* capacity: rows whose capacity is zero, negative or not a number are
\* dropped.
C16_RegistryCapacityPositive ==
  pc = "loaded" => \A i \in DOMAIN machines : machines[i].daily_capacity > 0

\* C17: the lines of a batch are filled in insertion order: a line has
\* received a positive quantity only if every line before it in the batch
\* has nothing remaining.
C17_InsertionOrderFill ==
  Started =>
    \A b \in DOMAIN batches : \A i, j \in DOMAIN batches[b].lines :
      (i < j /\ batches[b].lines[j].remaining < batches[b].lines[j].PLAN) =>
        batches[b].lines[i].remaining = 0

\* one allocation on day 0 filled the first line of a batch and gave the
\* second line the rest, less than it asks for
C17_Witness ==
  /\ pc = "distribute"
  /\ day_idx = 0
  /\ \E b \in DOMAIN batches :
       /\ Len(batches[b].lines) >= 2
       /\ batches[b].lines[1].remaining = 0
       /\ batches[b].lines[2].remaining > 0
       /\ batches[b].lines[2].remaining < batches[b].lines[2].PLAN
       /\ AssignedOn(line_assignments, batches[b].lines[1].idx, 0) = batches[b].lines[1].PLAN
       /\ AssignedOn(line_assignments, batches[b].lines[2].idx, 0)
            = batches[b].lines[2].PLAN - batches[b].lines[2].remaining

\* the plan makes a single batch and a single machine, of positive capacity,
\* is eligible for it
SingleBatchSingleMachine ==
  /\ Len(batches) = 1
  /\ Cardinality(CandidateIds(1)) = 1
  /\ \A mid \in CandidateIds(1) : GetMachine(machines, mid).daily_capacity > 0

\* C18: with a single batch requiring R and a single eligible machine of
\* capacity C > 0, distribute_batches allocates min(C, max(0, R - d*C)) on
\* day d of the horizon and leaves max(0, R - (MAX_SHIFT_DAYS + 1)*C).
C18_CarryOver ==
  (pc \in {"balance", "done"} /\ SingleBatchSingleMachine) =>
    \A mid \in CandidateIds(1) :
      LET R == BatchRequired(batches[1])
          C == GetMachine(machines, mid).daily_capacity
      IN /\ \A d \in Days :
              BatchQtyIn(Ledger(schedule_in, d, mid), batches[1].key) = Min(C, Max(0, R - d * C))
         /\ batch_remaining[batches[1].key] = Max(0, R - (MAX_SHIFT_DAYS + 1) * C)

\* a single batch on a single machine fills day 0 and day 1 and takes a
\* part of the last day
C18_Witness ==
  /\ pc = "done"
  /\ SingleBatchSingleMachine
  /\ \E mid \in CandidateIds(1) :
       LET C == GetMachine(machines, mid).daily_capacity
           last == BatchQtyIn(Ledger(schedule_in, MAX_SHIFT_DAYS, mid), batches[1].key)
       IN /\ BatchQtyIn(Ledger(schedule_in, 0, mid), batches[1].key) = C
          /\ BatchQtyIn(Ledger(schedule_in, 1, mid), batches[1].key) = C
          /\ last > 0
          /\ last < C
          /\ batch_remaining[batches[1].key] = 0

\* the balancer's view of day d as distribute_batches left it: the loads of
\* the twins over filter-matching entries, donor and receiver, and the move
\* budget min(receiver capacity - receiver load, (donor load - receiver load) div 2)
DayBudget(d) ==
  LET load1 == FilterLoad(schedule_in, batches, d, soy_machine_ids[1])
      load2 == FilterLoad(schedule_in, batches, d, soy_machine_ids[2])
      donor == IF load1 > load2 THEN 1 ELSE 2
      receiver == 3 - donor
      donor_load == IF load1 > load2 THEN load1 ELSE load2
      receiver_load == IF load1 > load2 THEN load2 ELSE load1
      room == GetMachine(machines, soy_machine_ids[receiver]).daily_capacity - receiver_load
  IN [load1 |-> load1, load2 |-> load2, donor |-> soy_machine_ids[donor],
      receiver |-> soy_machine_ids[receiver], room |-> room,
      budget |-> Min(room, (donor_load - receiver_load) \div 2)]

\* what the pass took off the donor on day d
MovedOn(d) ==
  FilterLoad(schedule_in, batches, d, DayBudget(d).donor)
    - FilterLoad(machine_schedule, batches, d, DayBudget(d).donor)

\* the quantities of every unit on both twins on day d are as
\* distribute_batches left them
DayUnchanged(d) ==
  \A k \in TwinUnits(d) : \A t \in 1..2 :
    LedgerQty(Ledger(machine_schedule, d, soy_machine_ids[t]), k)
      = LedgerQty(Ledger(schedule_in, d, soy_machine_ids[t]), k)

\* some filter-matching entry of the donor on day d is no larger than the budget
SomeEntryFits(d) ==
  LET ledger == Ledger(schedule_in, d, DayBudget(d).donor)
  IN \E i \in DOMAIN ledger :
       /\ MatchesFilter(batches, ledger[i].k[1])
       /\ ledger[i].qty > 0
       /\ ledger[i].qty <= DayBudget(d).budget

\* C19: when the twins' priorities are equal, on every day the balancing
\* pass moves only whole donor entries no larger than the move budget, the
\* total moved is at most the budget, and the day's quantities are unchanged
\* when both loads are zero, when the loads differ by at most 1, when the
\* receiver has no room, or when no matching donor entry fits the budget.
C19_MoveBudget ==
  (pc = "done" /\ balance_guard(machines)) =>
    \A d \in Days :
      LET day == DayBudget(d)
      IN /\ MovedOn(d) >= 0
         /\ MovedOn(d) <= Max(0, day.budget)
         /\ \A k \in TwinUnits(d) :
              LET before == LedgerQty(Ledger(schedule_in, d, day.donor), k)
                  after == LedgerQty(Ledger(machine_schedule, d, day.donor), k)
              IN after = before \/ (after = 0 /\ before <= day.budget)
         /\ (\/ day.load1 = 0 /\ day.load2 = 0
             \/ Abs(day.load1 - day.load2) <= 1
             \/ day.room <= 0
             \/ ~SomeEntryFits(d)) => DayUnchanged(d)

\* on one day the pass moved exactly the budget; on another day the donor's
\* only matching entry is larger than a positive budget and stays
C19_Witness ==
  /\ pc = "done"
  /\ balance_guard(machines)
  /\ \E d \in Days : MovedOn(d) > 0 /\ MovedOn(d) = DayBudget(d).budget
  /\ \E d \in Days :
       /\ DayBudget(d).budget > 0
       /\ FilterLoad(schedule_in, batches, d, DayBudget(d).donor) > DayBudget(d).budget
       /\ ~SomeEntryFits(d)
       /\ DayUnchanged(d)

\* C20: the M0, M1, M2 values written on the output row of a demand line are
\* the quantities allocated to that line on days 0, 1 and 2, also when the
\* PLAN > 0 filter removed rows before batching.
C20_LineProjection ==
  pc = "written" =>
    \A p \in DOMAIN plan_df : \A d \in Days :
      line_columns[p][d] = AssignedOn(line_assignments, plan_df[p].idx, d)

\* the inputs main() must reject: an empty registry, a plan with nothing
\* left after the PLAN > 0 filter, a kept plan row with a blank recipe
FatalInput ==
  \/ machines = <<>>
  \/ plan_filter(plan_sheet) = <<>>
  \/ \E i \in DOMAIN plan_filter(plan_sheet) : Strip(plan_filter(plan_sheet)[i].Recipe) = <<>>

\* C21: when main() aborts with a configuration or data error (a source
\* missing, an empty plan, a blank recipe, an empty registry), and on every
\* run whose input has such an error, no result sink has been written: not
\* the plan sheet, not the machine plan sheet, not the plan messages.
C21_NoPartialOutput ==
  (pc = "error" \/ FatalInput) => outputs = {}

\* the run got past the plan filter and the registry check and build_batches
\* raised on the blank recipe of brand c, with nothing written
C21_Witness ==
  /\ pc = "error"
  /\ machines # <<>>
  /\ Len(plan_df) >= 2
  /\ error = Raised("c")
  /\ outputs = {}

\* the positions of the plan rows whose recipe is empty or blanks only
BlankRecipeRows == {i \in DOMAIN plan_df : Strip(plan_df[i].Recipe) = <<>>}

\* C22: build_batches raises exactly when a plan row has an empty or
\* whitespace-only recipe; the error names the brand of the first such row
\* and no batches are returned.
C22_EmptyRecipeFatal ==
  pc \in {"distribute_start", "error"} =>
    IF BlankRecipeRows = {}
    THEN pc = "distribute_start" /\ error = NoError
    ELSE /\ pc = "error"
         /\ batches = <<>>
         /\ error = Raised(plan_df[CHOOSE i \in BlankRecipeRows :
                                     \A j \in BlankRecipeRows : i <= j].Brand)

\* the first row is in order, the second has a blank recipe: build_batches
\* raised naming the second row's brand and returned nothing
C22_Witness ==
  /\ pc = "error"
  /\ Len(plan_df) >= 2
  /\ 1 \notin BlankRecipeRows
  /\ 2 \in BlankRecipeRows
  /\ error = Raised(plan_df[2].Brand)
  /\ batches = <<>>

\* no machine of the registry is active and admits the class of batch b
NoEligibleMachine(b) ==
  \A i \in DOMAIN machines :
    ~(machines[i].active /\ can_produce(machines[i], batches[b].Type, batches[b].Category))

\* the loop position of distribute_batches moves forward: a later day, or
\* the same day and a later batch, or the same batch and a later candidate
LoopAdvances ==
  \/ day_idx' > day_idx
  \/ day_idx' = day_idx /\ bpos' > bpos
  \/ day_idx' = day_idx /\ bpos' = bpos /\ cpos' > cpos

C23_Step ==
  pc = "distribute" =>
    /\ pc' \in {"distribute", "balance"}
    /\ pc' = "distribute" => LoopAdvances

C23_State ==
  /\ pc = "distribute" =>
       /\ day_idx \in Days
       /\ bpos \in DOMAIN batch_items
       /\ cpos \in 0..Len(candidates)
       /\ batch_items[bpos] \in DOMAIN batches
  /\ Started =>
       \A b \in DOMAIN batches :
         NoEligibleMachine(b) =>
           /\ batch_remaining[batches[b].key] = BatchRequired(batches[b])
           /\ AllocatedTotal(AllocSchedule, batches[b].key) = 0
           /\ \A j \in DOMAIN batches[b].lines :
                /\ batches[b].lines[j].idx \notin DOMAIN line_assignments
                /\ batches[b].lines[j].remaining = batches[b].lines[j].PLAN

\* C23: distribute_batches never raises and terminates: every step of the
\* loop stays inside the horizon, the batch list and the candidate list,
\* goes on in the loop or returns, and moves the (day, batch, candidate)
\* position forward; a batch with no
\* eligible machine keeps its full remaining quantity and gets no ledger
\* entry and no line assignment.
C23_NonFatalTerminates == []C23_State /\ [][C23_Step]_vars

\* distribute_batches has returned with one batch that no machine can
\* take, untouched, and another batch short of capacity over the horizon
C23_Witness ==
  /\ pc = "balance"
  /\ \E b \in DOMAIN batches :
       /\ NoEligibleMachine(b)
       /\ batch_remaining[batches[b].key] = BatchRequired(batches[b])
  /\ \E b \in DOMAIN batches :
       /\ ~NoEligibleMachine(b)
       /\ batch_remaining[batches[b].key] > 0
       /\ AllocatedTotal(schedule_in, batches[b].key) > 0

\* quantity batch b received on day d, over all machines, as distribute_batches left it
ReceivedOn(b, d) ==
  SumSeq([i \in DOMAIN schedule_in |->
            IF schedule_in[i].day = d THEN BatchQtyIn(schedule_in[i].ledger, batches[b].key) ELSE 0])

\* C24: when distribute_batches has returned, a batch that received a
\* quantity on a day d >= 1 has every candidate machine at zero free
\* capacity on every earlier day, and a batch with a positive final
\* remainder has every candidate machine at zero free capacity on every day
\* of the horizon.
C24_NoEarlierCapacity ==
  pc = "balance" =>
    \A b \in DOMAIN batches : \A mid \in CandidateIds(b) :
      /\ \A d \in Days \ {0} :
           ReceivedOn(b, d) > 0 => \A e \in 0..(d - 1) : FreeOf(machine_free, e, mid) = 0
      /\ batch_remaining[batches[b].key] > 0 => \A e \in Days : FreeOf(machine_free, e, mid) = 0

\* quantity of (batch key, brand) on day d over the ledgers of all machines
LedgerOnDay(sched, d, k) ==
  SumSeq([i \in DOMAIN sched |-> IF sched[i].day = d THEN LedgerQty(sched[i].ledger, k) ELSE 0])

\* the brand labels of the plan, the blank label and the placeholder
BrandLabels == {plan_df[i].Brand : i \in DOMAIN plan_df} \cup {"", NO_BRAND}

\* quantity assigned on day d to the lines of a batch picked by their brand
LinesOnDay(batch, d, picked(_)) ==
  SumSeq([j \in DOMAIN batch.lines |->
            IF picked(batch.lines[j].Brand)
            THEN AssignedOn(line_assignments, batch.lines[j].idx, d) ELSE 0])

\* every (batch key, brand) key appears once in every ledger
OneEntryPerKey ==
  \A i \in DOMAIN machine_schedule :
    \A p, q \in DOMAIN machine_schedule[i].ledger :
      machine_schedule[i].ledger[p].k = machine_schedule[i].ledger[q].k => p = q

\* C25 as claimed: after every allocation step and after the balancing
\* pass, for every day, batch and brand x, the ledger quantity of
\* (batch, x) over all machines equals the quantity assigned that day to the
\* lines of the batch whose brand is x, one ledger entry per (batch, brand).
C25_LedgerMatchesLinesByBrand ==
  Started =>
    /\ OneEntryPerKey
    /\ \A b \in DOMAIN batches : \A d \in Days : \A x \in BrandLabels :
         LET SameBrand(brand) == brand = x
         IN LedgerOnDay(machine_schedule, d, <<batches[b].key, x>>) = LinesOnDay(batches[b], d, SameBrand)

\* C25 amended: the same equality with the lines picked by their ledger
\* brand, which is the brand label, or the placeholder _NO_BRAND_ for a
\* line whose brand label is blank.
C25_LedgerMatchesLinesByKey ==
  Started =>
    /\ OneEntryPerKey
    /\ \A b \in DOMAIN batches : \A d \in Days : \A x \in BrandLabels :
         LET SameKey(brand) == (IF brand = "" THEN NO_BRAND ELSE brand) = x
         IN LedgerOnDay(machine_schedule, d, <<batches[b].key, x>>) = LinesOnDay(batches[b], d, SameKey)

\* the balancing pass has run over a ledger where two lines of one brand
\* share one entry and a line with a blank brand has an entry of its own
C25_Witness ==
  /\ pc = "done"
  /\ balance_guard(machines)
  /\ \E b \in DOMAIN batches : \E j1, j2 \in DOMAIN batches[b].lines :
       /\ j1 # j2
       /\ batches[b].lines[j1].Brand = batches[b].lines[j2].Brand
       /\ AssignedOn(line_assignments, batches[b].lines[j1].idx, 0) > 0
       /\ AssignedOn(line_assignments, batches[b].lines[j2].idx, 0) > 0
       /\ \E mid \in TwinIds :
            LedgerQty(Ledger(machine_schedule, 0, mid),
                      <<batches[b].key, batches[b].lines[j1].Brand>>) >= 2
  /\ \E b \in DOMAIN batches : \E d \in Days :
       LedgerOnDay(machine_schedule, d, <<batches[b].key, NO_BRAND>>) > 0

\* C26: in every state of distribute_batches and when it has returned, for
\* every day of the horizon and every active machine, the free capacity
\* plus the quantities of the machine's ledger of that day is the machine's
\* daily capacity, and every ledger entry has a quantity > 0.
C26_CapacityAccounting ==
  Started =>
    /\ \A d \in Days : \A i \in DOMAIN machines :
         machines[i].active =>
           FreeOf(machine_free, d, machines[i].id)
             + LedgerTotal(Ledger(AllocSchedule, d, machines[i].id)) = machines[i].daily_capacity
    /\ \A i \in DOMAIN AllocSchedule : \A j \in DOMAIN AllocSchedule[i].ledger :
         AllocSchedule[i].ledger[j].qty > 0

\* in the middle of distribute_batches a machine holds two ledger entries
\* on one day and has capacity left, and another machine is full
C26_Witness ==
  /\ pc = "distribute"
  /\ \E i \in DOMAIN machine_schedule :
       /\ Len(machine_schedule[i].ledger) >= 2
       /\ FreeOf(machine_free, machine_schedule[i].day, machine_schedule[i].mid) = 0
  /\ \E i \in DOMAIN machine_schedule :
       /\ machine_schedule[i].ledger # <<>>
       /\ FreeOf(machine_free, machine_schedule[i].day, machine_schedule[i].mid) > 0

\* quantity assigned to one line over the days of the horizon
AssignedTotal(idx) == SumSeq([d \in 1..(MAX_SHIFT_DAYS + 1) |-> AssignedOn(line_assignments, idx, d - 1)])

C27_State ==
  Started =>
    \A b \in DOMAIN batches : \A j \in DOMAIN batches[b].lines :
      LET line == batches[b].lines[j]
      IN /\ 0 <= line.remaining
         /\ line.remaining <= line.PLAN
         /\ line.PLAN = line.remaining + AssignedTotal(line.idx)

C27_Step ==
  Started =>
    \A b \in DOMAIN batches : \A j \in DOMAIN batches[b].lines :
      batches'[b].lines[j].remaining <= batches[b].lines[j].remaining

\* C27: for every line, in every state of distribute_batches and after it,
\* 0 <= remaining <= required and required = remaining + the line's
\* assignments over the days, and no step increases a line's remaining.
C27_LineConservation == []C27_State /\ [][C27_Step]_vars

\* distribute_batches has returned; one line was served on two days and
\* another line is served in part
C27_Witness ==
  /\ pc = "balance"
  /\ \E b \in DOMAIN batches : \E j \in DOMAIN batches[b].lines :
       /\ AssignedOn(line_assignments, batches[b].lines[j].idx, 0) > 0
       /\ AssignedOn(line_assignments, batches[b].lines[j].idx, 1) > 0
  /\ \E b \in DOMAIN batches : \E j \in DOMAIN batches[b].lines :
       /\ batches[b].lines[j].remaining > 0
       /\ batches[b].lines[j].remaining < batches[b].lines[j].PLAN

\* the ledger of (d, mid) holds the same quantity of every unit in both schedules
SameLedger(s1, s2, d, mid) ==
  LET l1 == Ledger(s1, d, mid)
      l2 == Ledger(s2, d, mid)
  IN \A k \in {l1[i].k : i \in DOMAIN l1} \cup {l2[i].k : i \in DOMAIN l2} :
       LedgerQty(l1, k) = LedgerQty(l2, k)

\* the machines that have a ledger in either schedule
ScheduledIds == {schedule_in[i].mid : i \in DOMAIN schedule_in}
                  \cup {machine_schedule[i].mid : i \in DOMAIN machine_schedule}

C28_State ==
  pc \in {"balance", "done"} =>
    \A d \in Days :
      /\ \A k \in TwinUnits(d) :
           /\ LedgerQty(Ledger(machine_schedule, d, soy_machine_ids[1]), k)
                + LedgerQty(Ledger(machine_schedule, d, soy_machine_ids[2]), k)
              = LedgerQty(Ledger(schedule_in, d, soy_machine_ids[1]), k)
                + LedgerQty(Ledger(schedule_in, d, soy_machine_ids[2]), k)
           /\ ~MatchesFilter(batches, k[1]) =>
                \A mid \in TwinIds :
                  LedgerQty(Ledger(machine_schedule, d, mid), k)
                    = LedgerQty(Ledger(schedule_in, d, mid), k)
      /\ \A mid \in ScheduledIds \ TwinIds : SameLedger(schedule_in, machine_schedule, d, mid)

C28_Step ==
  pc = "balance" =>
    /\ UNCHANGED <<line_assignments, batches, batch_remaining, machine_free>>
    /\ \A d \in Days \ {day_idx} : \A i \in DOMAIN machine_schedule :
         SameLedger(machine_schedule, machine_schedule', d, machine_schedule[i].mid)

\* C28: the balancing pass keeps, for every day and every (batch key,
\* brand), the sum of the unit's quantities over the two twins; the ledgers
\* of the other machines and the entries outside the balancing filter stay
\* as they were; the step for one day changes no other day, no line
\* assignment and no line remainder.
C28_BalancerFrame == []C28_State /\ [][C28_Step]_vars

\* the pass has moved a unit between the twins on a day where a machine
\* outside the pair holds a ledger, and another day holds a ledger too
C28_Witness ==
  /\ pc = "done"
  /\ \E d \in Days :
       /\ MovedOn(d) > 0
       /\ \E i \in DOMAIN machine_schedule :
            /\ machine_schedule[i].day = d
            /\ machine_schedule[i].mid \notin TwinIds
            /\ machine_schedule[i].ledger # <<>>
       /\ \E i \in DOMAIN machine_schedule :
            /\ machine_schedule[i].day # d
            /\ machine_schedule[i].ledger # <<>>

\* C29: on every day, after the balancing pass the twins' filter-matching
\* loads differ by no more than before it, and the twin that carried more
\* before still carries as much as the other or more.
C29_NoOvershoot ==
  pc = "done" =>
    \A d \in Days :
      LET before1 == FilterLoad(schedule_in, batches, d, soy_machine_ids[1])
          before2 == FilterLoad(schedule_in, batches, d, soy_machine_ids[2])
          after1 == FilterLoad(machine_schedule, batches, d, soy_machine_ids[1])
          after2 == FilterLoad(machine_schedule, batches, d, soy_machine_ids[2])
      IN /\ Abs(after1 - after2) <= Abs(before1 - before2)
         /\ before1 > before2 => after1 >= after2
         /\ before2 > before1 => after2 >= after1

\* the pass has moved a unit, the twins are closer than before and the
\* donor carries no less than the receiver
C29_Witness ==
  /\ pc = "done"
  /\ \E d \in Days :
       /\ MovedOn(d) > 0
       /\ FilterLoad(machine_schedule, batches, d, DayBudget(d).donor)
            >= FilterLoad(machine_schedule, batches, d, DayBudget(d).receiver)
       /\ FilterLoad(machine_schedule, batches, d, DayBudget(d).receiver)
            > FilterLoad(schedule_in, batches, d, DayBudget(d).receiver)

\* C30: a second call of balance_soy_pp_between_two_machines right after
\* the first leaves the ledger as the first call left it.
C30_BalancerIdempotent ==
  [][pc = "done" => machine_schedule' = machine_schedule]_vars

\* the balancer has run twice and the first call had moved a unit
C30_Witness ==
  /\ pc = "balanced_twice"
  /\ balance_guard(machines)
  /\ \E d \in Days :
       /\ MovedOn(d) > 0
       /\ FilterLoad(machine_schedule, batches, d, soy_machine_ids[1]) > 0
       /\ FilterLoad(machine_schedule, batches, d, soy_machine_ids[2]) > 0

====
